---- MODULE Spec2Model ----
(***************************************************************************)
(* The Onedev inbound webhook (zerver/webhooks/onedev/view.py): event      *)
(* classification, topic and body formatting, and the URL-placeholder      *)
(* repair pass.  Texts are sequences of one-character strings, so that     *)
(* concatenation, number formatting, splitting and the regular-expression  *)
(* substitution are computed character by character.                       *)
(***************************************************************************)
EXTENDS Integers, Sequences, FiniteSets

VARIABLES pc, payload, user_specified_topic, event, body, topic, err,
          raised_at, sent, ppc, text, patched, repatched

vars == <<pc, payload, user_specified_topic, event, body, topic, err,
          raised_at, sent, ppc, text, patched, repatched>>

mainVars == <<pc, payload, user_specified_topic, event, body, topic, err,
              raised_at, sent>>
patchVars == <<ppc, text, patched, repatched>>

(***************************************************************************)
(* String literals of view.py and of the message templates.                *)
(***************************************************************************)
\* The backtick character, which a TLA+ string cannot hold: one atom that
\* differs from every other character.
Backtick == "BACKTICK"

\* 'io.onedev.server.event.issue.IssueOpened'
IssueOpenedClass == <<"i", "o", ".", "o", "n", "e", "d", "e", "v", ".", "s", "e", "r", "v", "e", "r", ".", "e", "v", "e", "n", "t", ".", "i", "s", "s", "u", "e", ".", "I", "s", "s", "u", "e", "O", "p", "e", "n", "e", "d">>
\* 'io.onedev.server.event.issue.IssueChanged'
IssueChangedClass == <<"i", "o", ".", "o", "n", "e", "d", "e", "v", ".", "s", "e", "r", "v", "e", "r", ".", "e", "v", "e", "n", "t", ".", "i", "s", "s", "u", "e", ".", "I", "s", "s", "u", "e", "C", "h", "a", "n", "g", "e", "d">>
\* 'io.onedev.server.event.pullrequest.PullRequestOpened'
PullRequestOpenedClass == <<"i", "o", ".", "o", "n", "e", "d", "e", "v", ".", "s", "e", "r", "v", "e", "r", ".", "e", "v", "e", "n", "t", ".", "p", "u", "l", "l", "r", "e", "q", "u", "e", "s", "t", ".", "P", "u", "l", "l", "R", "e", "q", "u", "e", "s", "t", "O", "p", "e", "n", "e", "d">>
\* 'io.onedev.server.event.pullrequest.PullRequestChanged'
PullRequestChangedClass == <<"i", "o", ".", "o", "n", "e", "d", "e", "v", ".", "s", "e", "r", "v", "e", "r", ".", "e", "v", "e", "n", "t", ".", "p", "u", "l", "l", "r", "e", "q", "u", "e", "s", "t", ".", "P", "u", "l", "l", "R", "e", "q", "u", "e", "s", "t", "C", "h", "a", "n", "g", "e", "d">>
\* 'issue_opened'
ISSUE_OPENED == <<"i", "s", "s", "u", "e", "_", "o", "p", "e", "n", "e", "d">>
\* 'issue_changed'
ISSUE_CHANGED == <<"i", "s", "s", "u", "e", "_", "c", "h", "a", "n", "g", "e", "d">>
\* 'pull_request_opened'
PULL_REQUEST_OPENED == <<"p", "u", "l", "l", "_", "r", "e", "q", "u", "e", "s", "t", "_", "o", "p", "e", "n", "e", "d">>
\* 'pull_request_changed'
PULL_REQUEST_CHANGED == <<"p", "u", "l", "l", "_", "r", "e", "q", "u", "e", "s", "t", "_", "c", "h", "a", "n", "g", "e", "d">>
\* 'IssueStateChangeData'
IssueStateChangeData == <<"I", "s", "s", "u", "e", "S", "t", "a", "t", "e", "C", "h", "a", "n", "g", "e", "D", "a", "t", "a">>
\* 'opened'
OPENED == <<"o", "p", "e", "n", "e", "d">>
\* 'io.onedev.server.event.issue.issueopened'
NearMissClass == <<"i", "o", ".", "o", "n", "e", "d", "e", "v", ".", "s", "e", "r", "v", "e", "r", ".", "e", "v", "e", "n", "t", ".", "i", "s", "s", "u", "e", ".", "i", "s", "s", "u", "e", "o", "p", "e", "n", "e", "d">>
\* 'IssueOpened'
OtherClass == <<"I", "s", "s", "u", "e", "O", "p", "e", "n", "e", "d">>
\* ' / issue #'
TopicIssueSep == <<" ", "/", " ", "i", "s", "s", "u", "e", " ", "#">>
\* ' / PR #'
TopicPRSep == <<" ", "/", " ", "P", "R", " ", "#">>
\* " changed 'state' from '"
ChangedStateFrom == <<" ", "c", "h", "a", "n", "g", "e", "d", " ", "'", "s", "t", "a", "t", "e", "'", " ", "f", "r", "o", "m", " ", "'">>
\* "' to '"
QuoteTo == <<"'", " ", "t", "o", " ", "'">>
\* 'None'
NoneText == <<"N", "o", "n", "e">>
\* 'issue'
IssueWord == <<"i", "s", "s", "u", "e">>
\* 'PR'
PRWord == <<"P", "R">>
\* ' from ' followed by a backtick
FromTick == <<" ", "f", "r", "o", "m", " ", Backtick>>
\* ' to ' between two backticks
TickToTick == <<Backtick, " ", "t", "o", " ", Backtick>>
\* '\n~~~ quote\n'
QuoteOpen == <<"\n", "~", "~", "~", " ", "q", "u", "o", "t", "e", "\n">>
\* '\n~~~'
QuoteClose == <<"\n", "~", "~", "~">>
\* '](None)'
PlaceholderTail == <<"]", "(", "N", "o", "n", "e", ")">>
Punctuation == {"!", "\"", "#", "$", "%", "&", "'", "(", ")", "*", "+", ",", "-", ".", "/", ":", ";", "<", "=", ">", "?", "@", "[", "\\", "]", "^", "_", Backtick, "{", "|", "}", "~"}

(***************************************************************************)
(* JSON values of the payload tree.  "missing" stands for a key path that  *)
(* does not exist in the payload.                                          *)
(***************************************************************************)
Missing == [k |-> "missing", s |-> <<>>, n |-> 0]
Null == [k |-> "null", s |-> <<>>, n |-> 0]
Txt(x) == [k |-> "str", s |-> x, n |-> 0]
Num(x) == [k |-> "int", s |-> <<>>, n |-> x]

\* Python's None, as a value of a local variable or an argument.
None == Null

\* Results of a call: a returned value, or a raised exception.
Return(x) == [ok |-> TRUE, v |-> x, e |-> "none"]
Raise(x) == [ok |-> FALSE, v |-> Null, e |-> x]

\* Python truthiness of an Optional[str]: None and "" are falsy.
Truthy(x) == x.k = "str" /\ x.s # <<>>

(***************************************************************************)
(* WildValue access: payload[...]...[key].tame(validator).  Indexing a     *)
(* key that is absent fails; the validator fails on a value of another     *)
(* type.                                                                   *)
(***************************************************************************)
tame_check_string(x) ==
  IF x.k = "str" THEN Return(x) ELSE Raise("ValidationError")

tame_check_int(x) ==
  IF x.k = "int" THEN Return(x) ELSE Raise("ValidationError")

tame_check_none_or_string(x) ==
  IF x.k \in {"str", "null"} THEN Return(x) ELSE Raise("ValidationError")

(***************************************************************************)
(* Text helpers.                                                           *)
(***************************************************************************)
Digit(d) == <<"0", "1", "2", "3", "4", "5", "6", "7", "8", "9">>[d + 1]

RECURSIVE NatToStr(_)
NatToStr(n) ==
  IF n < 10 THEN <<Digit(n)>> ELSE NatToStr(n \div 10) \o <<Digit(n % 10)>>

\* f"{number}" for a Python int.
IntToStr(n) == IF n < 0 THEN <<"-">> \o NatToStr(0 - n) ELSE NatToStr(n)

\* str.split(sep) for a one-character separator.
RECURSIVE Split(_, _)
Split(s, sep) ==
  IF \A i \in 1..Len(s) : s[i] # sep THEN <<s>>
  ELSE LET i == CHOOSE i \in 1..Len(s) :
                  s[i] = sep /\ \A j \in 1..(i - 1) : s[j] # sep
       IN <<SubSeq(s, 1, i - 1)>> \o Split(SubSeq(s, i + 1, Len(s)), sep)

\* sub occurs in s at position i.
OccursAt(s, sub, i) ==
  /\ i >= 1
  /\ i + Len(sub) - 1 <= Len(s)
  /\ SubSeq(s, i, i + Len(sub) - 1) = sub

Contains(s, sub) == \E i \in 1..(Len(s) + 1) : OccursAt(s, sub, i)

Occurrences(s, sub) == Cardinality({i \in 1..Len(s) : OccursAt(s, sub, i)})

SetMax(S) == CHOOSE x \in S : \A y \in S : y <= x

(***************************************************************************)
(* patchURL: re2.sub("\[(.+)\]\(None\)", group 1, text).  The matches are  *)
(* found left to right and do not overlap; at the leftmost "[" that starts *)
(* a match, the greedy ".+" takes the longest run of characters other than *)
(* a newline after which "](None)" follows.                                *)
(***************************************************************************)
MatchEnds(t, i) ==
  IF t[i] # "["
    THEN {}
    ELSE {j \in (i + 2)..Len(t) :
            /\ OccursAt(t, PlaceholderTail, j)
            /\ \A m \in (i + 1)..(j - 1) : t[m] # "\n"}

RECURSIVE patchFrom(_, _)
patchFrom(t, i) ==
  IF i > Len(t) THEN <<>>
  ELSE IF MatchEnds(t, i) = {} THEN <<t[i]>> \o patchFrom(t, i + 1)
  ELSE LET j == SetMax(MatchEnds(t, i))
       IN SubSeq(t, i + 1, j - 1) \o patchFrom(t, j + Len(PlaceholderTail))

patchURL(t) == patchFrom(t, 1)

(***************************************************************************)
(* The message templates of zerver/lib/webhooks/git.py, which view.py      *)
(* calls.  A link is rendered as [label](url); with url=None the url is    *)
(* rendered as the text None.                                              *)
(***************************************************************************)
\* str.format of an argument.
Render(x) ==
  IF x.k = "str" THEN x.s
  ELSE IF x.k = "int" THEN IntToStr(x.n)
  ELSE NoneText

get_pull_request_event_message(user_name, action, url, number, target_branch, base_branch, message, type, title) ==
  LET id == IF number # None THEN <<" ", "#">> \o Render(number) ELSE <<>>
      label == IF title # None
                 THEN type \o id \o <<" ">> \o Render(title)
                 ELSE type \o id
      link == Render(user_name) \o <<" ">> \o Render(action) \o <<" ", "[">>
              \o label \o <<"]", "(">> \o Render(url) \o <<")">>
      branches == Truthy(target_branch) /\ Truthy(base_branch)
      with_branches == IF branches
                         THEN link \o FromTick \o Render(target_branch)
                              \o TickToTick \o Render(base_branch) \o <<Backtick>>
                         ELSE link
      punctuation == IF Truthy(message) THEN <<":">> ELSE <<".">>
      ends_with_title == ~branches /\ title # None
      main_message ==
        IF ends_with_title /\ Render(title)[Len(Render(title))] \in Punctuation
          THEN with_branches
          ELSE with_branches \o punctuation
  IN IF ends_with_title /\ Render(title) = <<>>
       THEN Raise("IndexError")
       ELSE Return(IF Truthy(message)
                     THEN main_message \o <<"\n">> \o QuoteOpen
                          \o Render(message) \o QuoteClose
                     ELSE main_message)

get_issue_event_message(url, user_name, number, action, title, message) ==
  get_pull_request_event_message(user_name, action, url, number, None, None,
                                 message, IssueWord, title)

(***************************************************************************)
(* view.py                                                                 *)
(***************************************************************************)
\* get_event with a missing or non-string discriminator treated as "no
\* mapping" (as payload.get("@class") would) instead of a failed access.
get_event_lenient(p) ==
  IF p.class.k # "str" THEN Return(None)
  ELSE IF p.class.s = IssueOpenedClass THEN Return(Txt(ISSUE_OPENED))
  ELSE IF p.class.s = IssueChangedClass THEN Return(Txt(ISSUE_CHANGED))
  ELSE IF p.class.s = PullRequestOpenedClass
    THEN Return(Txt(PULL_REQUEST_OPENED))
  ELSE IF p.class.s = PullRequestChangedClass
    THEN Return(Txt(PULL_REQUEST_CHANGED))
  ELSE Return(None)

get_event(p) ==
  LET rawEvent == tame_check_string(p.class)
  IN IF ~rawEvent.ok THEN rawEvent
     ELSE IF rawEvent.v.s = IssueOpenedClass THEN Return(Txt(ISSUE_OPENED))
     ELSE IF rawEvent.v.s = IssueChangedClass THEN Return(Txt(ISSUE_CHANGED))
     ELSE IF rawEvent.v.s = PullRequestOpenedClass
       THEN Return(Txt(PULL_REQUEST_OPENED))
     ELSE IF rawEvent.v.s = PullRequestChangedClass
       THEN Return(Txt(PULL_REQUEST_CHANGED))
     ELSE Return(None)

format_issue_topic(p) ==
  LET project_name == tame_check_string(p.project_name)
      number == tame_check_int(p.issue_number)
      title == tame_check_string(p.issue_title)
  IN IF ~project_name.ok THEN project_name
     ELSE IF ~number.ok THEN number
     ELSE IF ~title.ok THEN title
     ELSE Return(Txt(project_name.v.s \o TopicIssueSep \o IntToStr(number.v.n)
                     \o <<" ">> \o title.v.s))

\* issue_message with the old and the new state exchanged.
issue_message_swapped(p, event_type, user_name) ==
  IF event_type = OPENED
    THEN tame_check_none_or_string(p.issue_description)
    ELSE LET change_type == tame_check_string(p.change_type)
             old_state == tame_check_string(p.newState)
             new_state == tame_check_string(p.oldState)
         IN IF ~change_type.ok THEN change_type
            ELSE IF change_type.v.s # IssueStateChangeData
              THEN Raise("UnboundLocalError")
            ELSE IF ~old_state.ok THEN old_state
            ELSE IF ~new_state.ok THEN new_state
            ELSE Return(Txt(user_name.s \o ChangedStateFrom \o old_state.v.s
                            \o QuoteTo \o new_state.v.s \o <<"'">>))

\* The local variable message of format_issue_event when line 101 is reached:
\* a returned value, or unbound (the else branch assigns it only for a state
\* change), in which case reading it raises UnboundLocalError.
issue_message(p, event_type, user_name) ==
  IF event_type = OPENED
    THEN tame_check_none_or_string(p.issue_description)
    ELSE LET change_type == tame_check_string(p.change_type)
             old_state == tame_check_string(p.oldState)
             new_state == tame_check_string(p.newState)
         IN IF ~change_type.ok THEN change_type
            ELSE IF change_type.v.s # IssueStateChangeData
              THEN Raise("UnboundLocalError")
            ELSE IF ~old_state.ok THEN old_state
            ELSE IF ~new_state.ok THEN new_state
            ELSE Return(Txt(user_name.s \o ChangedStateFrom \o old_state.v.s
                            \o QuoteTo \o new_state.v.s \o <<"'">>))

format_issue_event(p, event_type) ==
  LET user_name == tame_check_string(p.user_name)
      number == tame_check_int(p.issue_number)
      title == tame_check_string(p.issue_title)
  IN IF ~user_name.ok THEN user_name
     ELSE IF ~number.ok THEN number
     ELSE IF ~title.ok THEN title
     ELSE LET message == issue_message(p, event_type, user_name.v)
          IN IF ~message.ok THEN message
             ELSE LET rendered == get_issue_event_message(
                                    None, user_name.v, number.v,
                                    Txt(event_type), title.v, message.v)
                  IN IF ~rendered.ok THEN rendered
                     ELSE Return(Txt(patchURL(rendered.v)))

\* format_pull_request_topic with the issue topic's wording.
format_pull_request_topic_as_issue(p) ==
  LET project_name == tame_check_string(p.project_name)
      number == tame_check_int(p.request_number)
      title == tame_check_string(p.request_title)
  IN IF ~project_name.ok THEN project_name
     ELSE IF ~number.ok THEN number
     ELSE IF ~title.ok THEN title
     ELSE Return(Txt(project_name.v.s \o TopicIssueSep \o IntToStr(number.v.n)
                     \o <<" ">> \o title.v.s))

format_pull_request_topic(p) ==
  LET project_name == tame_check_string(p.project_name)
      number == tame_check_int(p.request_number)
      title == tame_check_string(p.request_title)
  IN IF ~project_name.ok THEN project_name
     ELSE IF ~number.ok THEN number
     ELSE IF ~title.ok THEN title
     ELSE Return(Txt(project_name.v.s \o TopicPRSep \o IntToStr(number.v.n)
                     \o <<" ">> \o title.v.s))

\* format_pull_request_event with sourceBranch and targetBranch passed under
\* their own names, the inversion undone.
format_pull_request_event_uninverted(p, include_title) ==
  LET user_name == tame_check_string(p.user_name)
      action == tame_check_string(p.activity)
      url == None
      number == tame_check_int(p.request_number)
      target_branch == tame_check_string(p.targetBranch)
      base_branch == tame_check_string(p.sourceBranch)
      title == IF include_title
                 THEN tame_check_string(p.pull_request_title)
                 ELSE Return(None)
  IN IF ~user_name.ok THEN user_name
     ELSE IF ~action.ok THEN action
     ELSE IF ~number.ok THEN number
     ELSE IF ~target_branch.ok THEN target_branch
     ELSE IF ~base_branch.ok THEN base_branch
     ELSE IF ~title.ok THEN title
     ELSE LET rendered == get_pull_request_event_message(
                            user_name.v, action.v, url, number.v,
                            target_branch.v, base_branch.v, None, PRWord,
                            title.v)
          IN IF ~rendered.ok THEN rendered
             ELSE Return(Txt(patchURL(rendered.v)))

format_pull_request_event(p, include_title) ==
  LET user_name == tame_check_string(p.user_name)
      action == tame_check_string(p.activity)
      url == None
      number == tame_check_int(p.request_number)
      target_branch == tame_check_string(p.sourceBranch)
      base_branch == tame_check_string(p.targetBranch)
      title == IF include_title
                 THEN tame_check_string(p.pull_request_title)
                 ELSE Return(None)
  IN IF ~user_name.ok THEN user_name
     ELSE IF ~action.ok THEN action
     ELSE IF ~number.ok THEN number
     ELSE IF ~target_branch.ok THEN target_branch
     ELSE IF ~base_branch.ok THEN base_branch
     ELSE IF ~title.ok THEN title
     ELSE LET rendered == get_pull_request_event_message(
                            user_name.v, action.v, url, number.v,
                            target_branch.v, base_branch.v, None, PRWord,
                            title.v)
          IN IF ~rendered.ok THEN rendered
             ELSE Return(Txt(patchURL(rendered.v)))

(***************************************************************************)
(* Requests.  A request is a payload and the optional topic parameter.     *)
(* The payloads are the well-formed payloads of each scenario, with at     *)
(* most MaxDefects fields replaced by a defect: the key removed, null, a   *)
(* number, or the empty string.                                            *)
(***************************************************************************)
MaxDefects == 1

Fields == {"class", "project_name", "user_name", "issue_number", "issue_title",
           "issue_description", "change_type", "oldState", "newState",
           "request_number", "request_title", "activity", "sourceBranch",
           "targetBranch", "pull_request_title"}

DefectValues == {Missing, Null, Num(5), Txt(<<>>)}

ClassValues == {IssueOpenedClass, IssueChangedClass, PullRequestOpenedClass,
                PullRequestChangedClass, NearMissClass, OtherClass}

ChangeTypes == {IssueStateChangeData, <<"R", "e", "f">>}

\* A payload as Onedev sends it: it has no pull_request key.  nasty chooses
\* field texts holding brackets and "(None)".
WellFormed(class, change_type, nasty) ==
  [class |-> Txt(class),
   project_name |-> Txt(<<"t", "r", "y">>),
   user_name |-> Txt(<<"j", "o">>),
   issue_number |-> IF nasty THEN Num(-12) ELSE Num(7),
   issue_title |-> IF nasty THEN Txt(<<"[", "k", "]", "(", "N", "o", "n", "e", ")">>)
                             ELSE Txt(<<"B", "u", "g">>),
   issue_description |-> IF nasty
                           THEN Txt(<<"[", "d", "]", "(", "u", ")", "[", "a", "]",
                                      "(", "N", "o", "n", "e", ")">>)
                           ELSE Txt(<<"s", "t", "e", "p", "s">>),
   change_type |-> Txt(change_type),
   oldState |-> IF nasty THEN Txt(<<"[", "o", "]", "(", "N", "o", "n", "e", ")">>)
                          ELSE Txt(<<"o", "p", "e", "n">>),
   newState |-> Txt(<<"c", "l", "o", "s", "e", "d">>),
   request_number |-> IF nasty THEN Num(-12) ELSE Num(7),
   request_title |-> IF nasty THEN Txt(<<"[", "k", "]", "(", "N", "o", "n", "e", ")">>)
                               ELSE Txt(<<"B", "u", "g">>),
   activity |-> Txt(OPENED),
   sourceBranch |-> IF nasty THEN Txt(<<"[", "m", "]", "(", "N", "o", "n", "e", ")">>)
                              ELSE Txt(<<"m", "a", "s", "t", "e", "r">>),
   targetBranch |-> Txt(<<"f", "e", "a", "t">>),
   pull_request_title |-> Missing]

Scenarios ==
  {WellFormed(c, IssueStateChangeData, b) : c \in ClassValues, b \in BOOLEAN}
  \cup {WellFormed(IssueChangedClass, <<"R", "e", "f">>, b) : b \in BOOLEAN}

RECURSIVE Damaged(_, _)
Damaged(P, k) ==
  IF k = 0 THEN P
  ELSE LET D == Damaged(P, k - 1)
       IN D \cup {[p EXCEPT ![f] = d] : p \in D, f \in Fields, d \in DefectValues}

Payloads == Damaged(Scenarios, MaxDefects)

Topics == {None, Txt(<<>>), Txt(<<"m", "y">>)}

SupportedEvents == {Txt(ISSUE_OPENED), Txt(ISSUE_CHANGED),
                    Txt(PULL_REQUEST_OPENED), Txt(PULL_REQUEST_CHANGED)}

IssueEvents == {Txt(ISSUE_OPENED), Txt(ISSUE_CHANGED)}

(***************************************************************************)
(* Texts given to patchURL on its own: up to MaxPieces pieces.             *)
(***************************************************************************)
MaxPieces == 6

Pieces == {<<"[">>, <<"a">>, PlaceholderTail, <<"]", "(", "u", ")">>, <<"\n">>}

RECURSIVE Flatten(_)
Flatten(q) == IF q = <<>> THEN <<>> ELSE Head(q) \o Flatten(Tail(q))

Texts == {Flatten(q) : q \in UNION {[1..k -> Pieces] : k \in 0..MaxPieces}}

(***************************************************************************)
(* onedev_webhook_main, one action per statement group.                    *)
(***************************************************************************)
Init ==
  /\ pc = "main"
  /\ payload \in Payloads
  /\ user_specified_topic \in Topics
  /\ event = None
  /\ body = None
  /\ topic = None
  /\ err = "none"
  /\ raised_at = "none"
  /\ sent = <<>>
  /\ ppc = "idle"
  /\ text = <<>>
  /\ patched = <<>>
  /\ repatched = <<>>

\* An exception e raised in function f propagates out of the view.
Fail(e, f) ==
  /\ pc' = "done"
  /\ err' = e
  /\ raised_at' = f

\* line 147
ExtractRepo ==
  /\ pc = "main"
  /\ LET repo == tame_check_string(payload.project_name)
     IN IF repo.ok
          THEN pc' = "classify" /\ UNCHANGED <<err, raised_at>>
          ELSE Fail(repo.e, "onedev_webhook_main")
  /\ UNCHANGED <<payload, user_specified_topic, event, body, topic, sent>>
  /\ UNCHANGED patchVars

\* line 148
Classify ==
  /\ pc = "classify"
  /\ LET r == get_event(payload)
     IN IF r.ok
          THEN pc' = "dispatch" /\ event' = r.v /\ UNCHANGED <<err, raised_at>>
          ELSE Fail(r.e, "get_event") /\ UNCHANGED event
  /\ UNCHANGED <<payload, user_specified_topic, body, topic, sent>>
  /\ UNCHANGED patchVars

\* lines 149-151 and 156-158
FormatIssue ==
  /\ pc = "dispatch"
  /\ event \in IssueEvents
  /\ LET event_type == Split(event.s, "_")[2]
         r == format_issue_event(payload, event_type)
     IN IF r.ok
          THEN pc' = "topic" /\ body' = r.v /\ UNCHANGED <<err, raised_at>>
          ELSE Fail(r.e, "format_issue_event") /\ UNCHANGED body
  /\ UNCHANGED <<payload, user_specified_topic, event, topic, sent>>
  /\ UNCHANGED patchVars

\* FormatPullRequest with a failed field access swallowed: the request goes
\* on with an empty body.
FormatPullRequest_swallow ==
  /\ pc = "dispatch"
  /\ event \in SupportedEvents \ IssueEvents
  /\ LET r == format_pull_request_event(payload, FALSE)
     IN /\ pc' = "topic"
        /\ body' = IF r.ok THEN r.v ELSE Txt(<<>>)
        /\ UNCHANGED <<err, raised_at>>
  /\ UNCHANGED <<payload, user_specified_topic, event, topic, sent>>
  /\ UNCHANGED patchVars

\* lines 163-164 and 169-170: include_title is left at its default, False
FormatPullRequest ==
  /\ pc = "dispatch"
  /\ event \in SupportedEvents \ IssueEvents
  /\ LET r == format_pull_request_event(payload, FALSE)
     IN IF r.ok
          THEN pc' = "topic" /\ body' = r.v /\ UNCHANGED <<err, raised_at>>
          ELSE Fail(r.e, "format_pull_request_event") /\ UNCHANGED body
  /\ UNCHANGED <<payload, user_specified_topic, event, topic, sent>>
  /\ UNCHANGED patchVars

\* lines 152-155, 159-162, 165-168, 171-174
SelectTopic ==
  /\ pc = "topic"
  /\ LET r == IF Truthy(user_specified_topic) THEN Return(user_specified_topic)
              ELSE IF event \in IssueEvents THEN format_issue_topic(payload)
              ELSE format_pull_request_topic(payload)
     IN IF r.ok
          THEN pc' = "send" /\ topic' = r.v /\ UNCHANGED <<err, raised_at>>
          ELSE Fail(r.e, "format_topic") /\ UNCHANGED topic
  /\ UNCHANGED <<payload, user_specified_topic, event, body, sent>>
  /\ UNCHANGED patchVars

\* RaiseUnsupported without the raise: the request falls through to the send.
RaiseUnsupported_fallthrough ==
  /\ pc = "dispatch"
  /\ event \notin SupportedEvents
  /\ pc' = "send"
  /\ UNCHANGED <<payload, user_specified_topic, event, body, topic, err,
                 raised_at, sent>>
  /\ UNCHANGED patchVars

\* lines 226-227
RaiseUnsupported ==
  /\ pc = "dispatch"
  /\ event \notin SupportedEvents
  /\ Fail("UnsupportedWebhookEventType", "onedev_webhook_main")
  /\ UNCHANGED <<payload, user_specified_topic, event, body, topic, sent>>
  /\ UNCHANGED patchVars

\* lines 229-230
SendMessage ==
  /\ pc = "send"
  /\ sent' = Append(sent, [topic |-> topic, body |-> body, event |-> event])
  /\ pc' = "done"
  /\ UNCHANGED <<payload, user_specified_topic, event, body, topic, err,
               raised_at>>
  /\ UNCHANGED patchVars

Next ==
  \/ ExtractRepo
  \/ Classify
  \/ FormatIssue
  \/ FormatPullRequest
  \/ SelectTopic
  \/ RaiseUnsupported
  \/ SendMessage

Spec == Init /\ [][Next]_vars

(***************************************************************************)
(* patchURL applied to a text, and again to its result.                    *)
(***************************************************************************)
PatchInit ==
  /\ ppc = "start"
  /\ text \in Texts
  /\ patched = <<>>
  /\ repatched = <<>>
  /\ pc = "idle"
  /\ payload = WellFormed(OtherClass, IssueStateChangeData, FALSE)
  /\ user_specified_topic = None
  /\ event = None
  /\ body = None
  /\ topic = None
  /\ err = "none"
  /\ raised_at = "none"
  /\ sent = <<>>

ApplyPatch ==
  /\ ppc = "start"
  /\ patched' = patchURL(text)
  /\ ppc' = "patched"
  /\ UNCHANGED <<text, repatched>>
  /\ UNCHANGED mainVars

ApplyAgain ==
  /\ ppc = "patched"
  /\ repatched' = patchURL(patched)
  /\ ppc' = "done"
  /\ UNCHANGED <<text, patched>>
  /\ UNCHANGED mainVars

PatchNext ==
  \/ ApplyPatch
  \/ ApplyAgain

PatchSpec == PatchInit /\ [][PatchNext]_vars

(***************************************************************************)
(* Properties.                                                             *)
(***************************************************************************)
Done == pc = "done"

Delivered == Len(sent) = 1

IsStr(x) == x.k = "str"

IsInt(x) == x.k = "int"

SupportedClasses == {IssueOpenedClass, IssueChangedClass,
                     PullRequestOpenedClass, PullRequestChangedClass}

\* get_event has run: it returned, or the exception came out of it.
Classified == pc \in {"dispatch", "topic", "send"} \/ raised_at = "get_event"

\* The kind each discriminator string stands for.
KindOf(class) ==
  CASE class = Txt(IssueOpenedClass) -> Txt(ISSUE_OPENED)
    [] class = Txt(IssueChangedClass) -> Txt(ISSUE_CHANGED)
    [] class = Txt(PullRequestOpenedClass) -> Txt(PULL_REQUEST_OPENED)
    [] class = Txt(PullRequestChangedClass) -> Txt(PULL_REQUEST_CHANGED)
    [] OTHER -> None

\* No bracket in the text: nothing for the repair pass to match.
Plain(s) == \A i \in 1..Len(s) : s[i] \notin {"[", "]"}

IsPrefix(a, b) == Len(a) <= Len(b) /\ SubSeq(b, 1, Len(a)) = a

IsSuffix(a, b) ==
  Len(a) <= Len(b) /\ SubSeq(b, Len(b) - Len(a) + 1, Len(b)) = a

\* C1, as stated: get_event is total; each supported discriminator gives its
\* kind and every other input, a missing field included, gives the
\* "unsupported" outcome and never an access error.
C1_TotalClassification ==
  Classified => raised_at # "get_event" /\ event = KindOf(payload.class)

\* C1, amended: for a discriminator that is a string, get_event returns the
\* kind of a supported string (exact match) and None, the "unsupported"
\* outcome, for any other string; when the field is missing or is not a
\* string, get_event raises the field-access error and returns nothing.
C1_ClassificationOfStrings ==
  Classified =>
    IF IsStr(payload.class)
      THEN raised_at # "get_event" /\ event = KindOf(payload.class)
      ELSE /\ raised_at = "get_event"
           /\ err = "ValidationError"
           /\ event = None
           /\ Done

C1_Witness ==
  /\ raised_at = "get_event"
  /\ payload.class = Missing
  /\ IsStr(payload.project_name)

\* C2, as stated: a payload whose discriminator is an unsupported string ends
\* with the unsupported-event error and sends nothing, whatever its other
\* fields are.
C2_UnsupportedWhateverElse ==
  (Done /\ IsStr(payload.class) /\ payload.class.s \notin SupportedClasses) =>
    err = "UnsupportedWebhookEventType" /\ sent = <<>>

\* C2, amended: a payload whose discriminator is an unsupported string sends
\* nothing; it ends with the unsupported-event error when project.name is a
\* string, whatever its other fields are, and with the field-access error of
\* line 147 when project.name is missing or is not a string.
C2_UnsupportedAfterRepo ==
  (Done /\ IsStr(payload.class) /\ payload.class.s \notin SupportedClasses) =>
    /\ sent = <<>>
    /\ IF IsStr(payload.project_name)
         THEN err = "UnsupportedWebhookEventType"
         ELSE err = "ValidationError" /\ raised_at = "onedev_webhook_main"

C2_Witness ==
  /\ Done
  /\ err = "UnsupportedWebhookEventType"
  /\ payload.class = Txt(NearMissClass)
  /\ payload.user_name = Missing

\* The fields the body of the payload's event needs.
BodyFieldsOk(p) ==
  /\ IsStr(p.user_name)
  /\ IF p.class.s \in {IssueOpenedClass, IssueChangedClass}
       THEN /\ IsInt(p.issue_number)
            /\ IsStr(p.issue_title)
            /\ IF p.class.s = IssueOpenedClass
                 THEN p.issue_description.k \in {"str", "null"}
                 ELSE IsStr(p.change_type) /\ IsStr(p.oldState)
                      /\ IsStr(p.newState)
       ELSE /\ IsInt(p.request_number)
            /\ IsStr(p.activity)
            /\ IsStr(p.sourceBranch)
            /\ IsStr(p.targetBranch)

\* The fields the computed topic of the payload's event needs.
TopicFieldsOk(p) ==
  IF p.class.s \in {IssueOpenedClass, IssueChangedClass}
    THEN IsInt(p.issue_number) /\ IsStr(p.issue_title)
    ELSE IsInt(p.request_number) /\ IsStr(p.request_title)

\* C3: a message is handed to delivery at most once, and only when the
\* discriminator is supported and every field read for the body and for the
\* topic is present with its type; a request that ends in an error has sent
\* nothing, and a finished request has either sent or ended in an error.
C3_SendOnlyAfterAllFields ==
  /\ Len(sent) <= 1
  /\ Delivered =>
       /\ Done /\ err = "none"
       /\ IsStr(payload.class) /\ payload.class.s \in SupportedClasses
       /\ IsStr(payload.project_name)
       /\ BodyFieldsOk(payload)
       /\ (~Truthy(user_specified_topic) => TopicFieldsOk(payload))
       /\ sent[1] = [topic |-> topic, body |-> body, event |-> event]
       /\ IsStr(topic) /\ IsStr(body)
  /\ err # "none" => sent = <<>>
  /\ Done => (Delivered <=> err = "none")

C3_Witness ==
  /\ Done
  /\ err = "ValidationError"
  /\ raised_at = "format_pull_request_event"
  /\ payload.class = Txt(PullRequestChangedClass)
  /\ payload.sourceBranch = Missing
  /\ sent = <<>>

\* The topic computed from the payload.
ComputedTopic(p) ==
  IF p.class.s \in {IssueOpenedClass, IssueChangedClass}
    THEN p.project_name.s \o <<" ", "/", " ", "i", "s", "s", "u", "e", " ", "#">>
         \o IntToStr(p.issue_number.n) \o <<" ">> \o p.issue_title.s
    ELSE p.project_name.s \o <<" ", "/", " ", "P", "R", " ", "#">>
         \o IntToStr(p.request_number.n) \o <<" ">> \o p.request_title.s

\* C4, as stated: whenever an override string is supplied, whatever its
\* value, the topic handed to delivery is the override; otherwise it is the
\* computed topic.
C4_AnyOverrideVerbatim ==
  Delivered =>
    sent[1].topic = IF IsStr(user_specified_topic)
                      THEN user_specified_topic
                      ELSE Txt(ComputedTopic(payload))

\* C4, amended: the topic handed to delivery is the override verbatim
\* whenever a non-empty override is supplied; when none is supplied or the
\* supplied one is the empty string it is "<project.name> / issue
\* #<issue.number> <issue.title>" for the issue kinds and "<project.name> /
\* PR #<request.number> <request.title>" for the pull-request kinds.
C4_NonEmptyOverrideVerbatim ==
  Delivered =>
    sent[1].topic = IF IsStr(user_specified_topic)
                       /\ user_specified_topic.s # <<>>
                      THEN user_specified_topic
                      ELSE Txt(ComputedTopic(payload))

C4_Witness ==
  /\ Delivered
  /\ user_specified_topic = Txt(<<>>)
  /\ payload.class = Txt(PullRequestOpenedClass)
  /\ sent[1].topic = Txt(<<"t", "r", "y", " ", "/", " ", "P", "R", " ", "#", "7",
                           " ", "B", "u", "g">>)

\* C5: patchURL is idempotent.
C5_Idempotent ==
  ppc = "done" => repatched = patched

NormalLink == <<"[", "a", "]", "(", "u", ")">>

\* C6 (two of its cases): patchURL leaves every properly-formed link of the
\* text as it was, and returns a text without "[label](None)" unchanged.
C6_LinksKept ==
  ppc \in {"patched", "done"} =>
    /\ Occurrences(patched, NormalLink) = Occurrences(text, NormalLink)
    /\ (~Contains(text, PlaceholderTail) => patched = text)

\* Text fields that are present and not empty, numbers that are numbers.
NonEmptyStr(x) == IsStr(x) /\ x.s # <<>>

\* C7: an issue-changed event with an unrecognized change type, its required
\* fields present, does not fail: the request completes and a message is sent.
C7_UnknownChangeSendsMessage ==
  ( /\ Done
    /\ payload.class = Txt(IssueChangedClass)
    /\ NonEmptyStr(payload.change_type)
    /\ payload.change_type.s # IssueStateChangeData
    /\ NonEmptyStr(payload.project_name)
    /\ NonEmptyStr(payload.user_name)
    /\ IsInt(payload.issue_number)
    /\ NonEmptyStr(payload.issue_title) ) =>
    err = "none" /\ Delivered

\* The sentence of a state transition.
StateSentence(p) ==
  p.user_name.s \o <<" ", "c", "h", "a", "n", "g", "e", "d", " ", "'", "s",
                     "t", "a", "t", "e", "'", " ", "f", "r", "o", "m", " ", "'">>
  \o p.oldState.s \o <<"'", " ", "t", "o", " ", "'">> \o p.newState.s \o <<"'">>

StateChangeDelivered ==
  /\ Delivered
  /\ sent[1].event = Txt(ISSUE_CHANGED)
  /\ payload.change_type = Txt(IssueStateChangeData)

\* C8, as stated: the body of a state transition is exactly the sentence,
\* with nothing before or after it.
C8_BodyIsSentence ==
  StateChangeDelivered => sent[1].body = Txt(StateSentence(payload))

\* C8, amended: the body of a state transition is not the sentence alone: it
\* is the issue-event message, a header followed by a quote block that holds
\* the sentence after the repair pass ("\n\n~~~ quote\n<sentence>\n~~~");
\* when user name, title and states hold no bracket the header is
\* "<user.name> changed issue #<issue.number> <issue.title>" and its
\* punctuation, and the quote block holds the sentence verbatim.
C8_BodyQuotesSentence ==
  StateChangeDelivered =>
    LET b == sent[1].body.s
        sentence == StateSentence(payload)
        quote(s) == <<"\n", "\n", "~", "~", "~", " ", "q", "u", "o", "t", "e", "\n">>
                    \o s \o <<"\n", "~", "~", "~">>
    IN /\ b # sentence
       /\ IsSuffix(quote(patchURL(sentence)), b)
       /\ (Plain(sentence) /\ Plain(payload.issue_title.s)) =>
            /\ IsSuffix(quote(sentence), b)
            /\ IsPrefix(payload.user_name.s
                        \o <<" ", "c", "h", "a", "n", "g", "e", "d", " ", "i", "s",
                             "s", "u", "e", " ", "#">>
                        \o IntToStr(payload.issue_number.n) \o <<" ">>
                        \o payload.issue_title.s, b)

C8_Witness ==
  /\ StateChangeDelivered
  /\ payload.oldState = Txt(<<"o", "p", "e", "n">>)
  /\ payload.newState = Txt(<<"c", "l", "o", "s", "e", "d">>)
  /\ payload.user_name = Txt(<<"j", "o">>)
  /\ Contains(sent[1].body.s, StateSentence(payload))

\* The pull-request message before the repair pass: sourceBranch in the
\* "from" place, targetBranch in the "to" place, no title.
PullRequestText(p, link_open, link_close) ==
  p.user_name.s \o <<" ">> \o p.activity.s \o <<" ">> \o link_open
  \o <<"P", "R", " ", "#">> \o IntToStr(p.request_number.n) \o link_close
  \o (IF p.sourceBranch.s # <<>> /\ p.targetBranch.s # <<>>
        THEN <<" ", "f", "r", "o", "m", " ", Backtick>> \o p.sourceBranch.s
             \o <<Backtick, " ", "t", "o", " ", Backtick>> \o p.targetBranch.s
             \o <<Backtick>>
        ELSE <<>>)
  \o <<".">>

\* C9: the body of a pull-request event is "<user.name> <activity> [PR
\* #<number>](None) from `<sourceBranch>` to `<targetBranch>`." after the
\* repair pass, so with no bracket in the fields "<user.name> <activity> PR
\* #<number> from `<sourceBranch>` to `<targetBranch>`."; no title is part
\* of it, with or without an override topic.
C9_PullRequestBody ==
  (Delivered /\ sent[1].event \in SupportedEvents \ IssueEvents) =>
    /\ sent[1].body.s =
         patchURL(PullRequestText(payload, <<"[">>,
                                  <<"]", "(", "N", "o", "n", "e", ")">>))
    /\ ( /\ Plain(payload.user_name.s)
         /\ Plain(payload.activity.s)
         /\ Plain(payload.sourceBranch.s)
         /\ Plain(payload.targetBranch.s) ) =>
         sent[1].body.s = PullRequestText(payload, <<>>, <<>>)

C9_Witness ==
  /\ Delivered
  /\ sent[1].event = Txt(PULL_REQUEST_OPENED)
  /\ user_specified_topic = Txt(<<"m", "y">>)
  /\ payload.sourceBranch = Txt(<<"m", "a", "s", "t", "e", "r">>)
  /\ payload.targetBranch = Txt(<<"f", "e", "a", "t">>)
  /\ IsStr(payload.request_title)

\* C10: for an issue-opened event whose required fields are present, the
\* description is optional: with a null or absent description the request
\* does not fail and a message is sent, and a description without brackets
\* is part of the body.
C10_DescriptionOptional ==
  ( /\ Done
    /\ payload.class = Txt(IssueOpenedClass)
    /\ NonEmptyStr(payload.project_name)
    /\ NonEmptyStr(payload.user_name)
    /\ IsInt(payload.issue_number)
    /\ NonEmptyStr(payload.issue_title)
    /\ payload.issue_description.k \in {"missing", "null", "str"} ) =>
    /\ err = "none"
    /\ Delivered
    /\ (IsStr(payload.issue_description)
        /\ Plain(payload.issue_description.s)) =>
         Contains(sent[1].body.s, payload.issue_description.s)
====
